---- MODULE Spec2Model ----
(***************************************************************************)
(* Artifact streaming and synchronisation engine of the chat SDK:          *)
(*   - the server tools createDocument / updateDocument that write the     *)
(*     typed events data-kind, data-id, data-title, data-content and       *)
(*     data-updated to the data stream and persist document versions;      *)
(*   - the consumer that folds those events into the artifact state;       *)
(*   - ArtifactSidebar: local title / editor edits, the debounced          *)
(*     autosave (scheduleSave, handleContentChange), handleClose, the      *)
(*     unmount cleanup and the "updated" auto-clear timer;                 *)
(*   - the versioned document store and the client's cached version list.  *)
(* One document id ("d1") is modelled.                                     *)
(*   - the chat route, its tools and the resumable stream bridge;          *)
(*   - the consumer's data-stream list, MCPClientManager, the cache        *)
(*     helpers of lib/redis.ts and the Notion pages route cache.           *)
(***************************************************************************)
EXTENDS Integers, Sequences, FiniteSets, TLC

VARIABLES
    status,        \* artifact.status
    content,       \* artifact.content
    title,         \* artifact.title
    documentId,    \* artifact.documentId ("init" until a data-id event)
    isVisible,     \* artifact.isVisible
    mounted,       \* ArtifactSidebar is mounted
    saveTimerRef,  \* saveTimerRef.current (0 = null, else a timer id)
    timers,        \* armed debounce timers: [id, content, title]
    updatedTimer,  \* the 3 s auto-clear timer is armed
    cache,         \* SWR cache of /api/document?id=d1: [loaded, docs]
    store,         \* Document rows of d1 in insertion order
    clock,         \* store clock, source of createdAt
    inflight,      \* running mutate() updaters awaiting their POST
    wire,          \* events written to the data stream, not yet consumed
    run,           \* the generation run's tool call on the server
    idAssigned,    \* generateUUID() has handed out the id d1
    lastCall,      \* arguments of the pending scheduleSave calls (burst)
    edits,         \* number of local edits that have taken effect
    drops,         \* number of writes the store has not applied
    lastOp,        \* what the last step did
    \* ---- the chat route (POST /api/chat) and its generation run
    redisUrl,      \* REDIS_URL is configured for the deployment
    redisUp,       \* the durable backing store is reachable
    globalStreamContext,  \* the cached ResumableStreamContext, or "null"
    console,       \* what console.log / console.error have printed
    post,          \* the chat request being served: [pc, ...]
    streamTable,   \* Stream Records created by createStreamId
    dataStream,    \* events the generation run has written, in order
    call,          \* the tool call the generation run is executing
    documents,     \* Document rows of all ids, in insertion order
    uuids,         \* number of ids generateUUID() has handed out
    bridge,        \* the resumable stream of the run: [mode, log]
    readers,       \* the feeds attached to the stream, by reader
    \* ---- the consumer's data-stream list (Chat, useChat onData)
    dataStreamList,  \* the provider's dataStream state: [defined, items]
    received,      \* the data parts onData has been called with, in order
    \* ---- MCPClientManager (the singleton mcpClientManager), one name
    clients,       \* clients.get(name): 0, or the client of attempt n
    connections,   \* connections.get(name): 0, or the promise of attempt n
    attempts,      \* the createConnection promises: pending/fulfilled/rejected
    callers,       \* the getClient calls, by caller: [pc, promise, got]
    closing,       \* disconnect calls awaiting client.close()
    disconnects,   \* number of disconnect calls made
    \* ---- the cache helpers of lib/redis.ts, one key
    redisEntry,    \* the key in Redis: [present, data, expires]
    memoryCache,   \* memoryCache.get(key): [present, data, expires]
    now,           \* Date.now(), in milliseconds
    lastWrite,     \* the latest setCached / deleteCached that returned
    lastGet,       \* what getCached returned, if the last call was a get
    \* ---- the Notion pages route (GET /api/notion/pages)
    pageCache,     \* the route's cache Map, in insertion order: [key, timestamp]
    pagesNow,      \* Date.now() of the route, in milliseconds
    queries,       \* number of distinct search queries requested so far
    served         \* the last response: [source, timestamp, at]

clientVars == <<status, content, title, documentId, isVisible, mounted,
                saveTimerRef, timers, updatedTimer, cache, store, clock,
                inflight, wire, run, idAssigned, lastCall, edits, drops,
                lastOp>>

serverVars == <<redisUrl, redisUp, globalStreamContext, console, post,
                streamTable, dataStream, call, documents, uuids, bridge,
                readers>>

dataVars == <<dataStreamList, received>>

mcpVars == <<clients, connections, attempts, callers, closing, disconnects>>

cacheVars == <<redisEntry, memoryCache, now, lastWrite, lastGet>>

notionVars == <<pageCache, pagesNow, queries, served>>

utilVars == <<dataVars, mcpVars, cacheVars, notionVars>>

vars == <<clientVars, serverVars, utilVars>>

\* ---------------------------------------------------------------- bounds
\* A tool call starts once the events of the previous one are consumed, so
\* the data stream needs no bound of its own.
MaxRows == 3
MaxInflight == 2
MaxEdits == 2
MaxDrops == 1
MaxUpdates == 1

\* ---------------------------------------------------------------- inputs
Contents == {"a", "b"}
Titles == {"t", "u"}
NoTitle == "none"
None == [op |-> "none"]
Other == [op |-> "other"]
\* The effect's cleanup has called clearTimeout on a pending timer.
Cleanup == [op |-> "cleanup"]
CreateTitles == {"t"}
CreateContents == {"a"}
UpdateTitles == {NoTitle, "u"}
UpdateContents == {"b"}
Statuses == {"init", "streaming", "idle", "updated"}

Last(s) == s[Len(s)]

Pair(c, t) == [content |-> c, title |-> t]

\* ------------------------------------------------------- document store
\* The row a write appends: a new (id, createdAt) snapshot.
NewRow(c, t, vt, at) ==
    [content |-> c, title |-> t, versionType |-> vt, createdAt |-> at]

\* Variant: the write replaces the latest row in place.
SaveDocument_Overwrite(rows, c, t, vt, at) ==
    IF Len(rows) = 0 THEN Append(rows, NewRow(c, t, vt, at))
    ELSE [rows EXCEPT ![Len(rows)] = NewRow(c, t, vt, at)]

SaveDocument(rows, c, t, vt, at) == Append(rows, NewRow(c, t, vt, at))

\* GET /api/document?id=d1 : the versions of the id, oldest first.
Versions(rows) == [i \in 1..Len(rows) |-> Pair(rows[i].content, rows[i].title)]

\* getDocumentById: the latest row, or "none".
HasDocument(rows) == Len(rows) > 0

\* --------------------------------------------- "updated" auto-clear effect
\* useEffect on [artifact.status]: a timer is armed exactly while the
\* status is "updated"; the cleanup clears it on every status change.
\* Variant: the effect arms its timer whatever the status is.
AutoClearArmed_Always(s) == TRUE

AutoClearArmed(s) == s = "updated"

EffectTimer(isMounted, s) == isMounted /\ AutoClearArmed(s)

\* ----------------------------------------------------- debounce scheduler
TimerIds(ts) == {tm.id : tm \in ts}

NewTimerId(ts, ref) ==
    CHOOSE i \in 1..(Cardinality(ts) + 2) : i \notin (TimerIds(ts) \cup {ref})

ClearTimeout(ts, ref) == {tm \in ts : tm.id # ref}

\* Variant: scheduleSave arms a timer without clearing the previous one.
ScheduleSaveTimers_NoClear(ts, ref, c, t) ==
    ts \cup {[id |-> NewTimerId(ts, ref), content |-> c, title |-> t]}

\* scheduleSave: clear the timer the ref names, arm a new one.
ScheduleSaveTimers(ts, ref, c, t) ==
    ClearTimeout(ts, ref)
        \cup {[id |-> NewTimerId(ts, ref), content |-> c, title |-> t]}

BurstCount(ts, ref) ==
    IF \E tm \in ts : tm.id = ref /\ lastCall # None THEN 2 ELSE 1

\* ------------------------------------------------------ handleContentChange
\* Variant: the updater does not compare with the latest cached version.
SaveOutcome_NoDiff(c, t) ==
    IF documentId = "" THEN "noid"
    ELSE IF documentId = "init" \/ ~cache.loaded \/ Len(cache.docs) = 0
         THEN "nocache"
    ELSE "post"

\* The updater passed to mutate() runs at once on the cached list.
SaveOutcome(c, t) ==
    IF documentId = "" THEN "noid"
    ELSE IF documentId = "init" \/ ~cache.loaded \/ Len(cache.docs) = 0
         THEN "nocache"
    ELSE IF Last(cache.docs).content = c /\ Last(cache.docs).title = t
         THEN "nochange"
    ELSE "post"

\* A newer mutate() on the key makes older running ones stale: their
\* result no longer populates the cache.
Supersede(fl) == [i \in 1..Len(fl) |-> [fl[i] EXCEPT !.latest = FALSE]]

InflightAfter(c, t) ==
    CASE SaveOutcome(c, t) = "noid" -> inflight
      [] SaveOutcome(c, t) = "post" ->
            Append(Supersede(inflight),
                   [content |-> c, title |-> t, base |-> cache.docs,
                    latest |-> TRUE, startLen |-> Len(store)])
      [] OTHER -> Supersede(inflight)

CanSave(c, t) ==
    \/ SaveOutcome(c, t) # "post"
    \/ Len(inflight) < MaxInflight /\ Len(cache.docs) < MaxRows

\* Record of a handleContentChange call made by the last step: who called
\* it, with what, what the updater decided, whether a pending timer was
\* cancelled for it, the size of the scheduleSave burst behind it and the
\* artifact status when the edit behind it was made.
SaveOp(src, c, t, cancelled, burst, during) ==
    [op |-> "save", src |-> src, content |-> c, title |-> t,
     outcome |-> SaveOutcome(c, t), cancelled |-> cancelled,
     burst |-> burst, during |-> during]

RemoveAt(s, i) == [j \in 1..(Len(s) - 1) |-> IF j < i THEN s[j] ELSE s[j + 1]]

\* ---------------------------------------------------------------- Init
ClientInit ==
    /\ status = "init"
    /\ content = ""
    /\ title = ""
    /\ documentId = "init"
    /\ isVisible = FALSE
    /\ mounted = TRUE
    /\ saveTimerRef = 0
    /\ timers = {}
    /\ updatedTimer = EffectTimer(TRUE, "init")
    /\ cache = [loaded |-> FALSE, docs |-> <<>>]
    /\ store = <<>>
    /\ clock = 0
    /\ inflight = <<>>
    /\ wire = <<>>
    /\ run = [pc |-> "idle"]
    /\ idAssigned = FALSE
    /\ lastCall = None
    /\ edits = 0
    /\ drops = 0
    /\ lastOp = Other

\* The chat route before any request; a tool call that has not started.
NoCall == [tool |-> "none", pc |-> "none", n |-> 0]

Readers == {1, 2}

Detached == [on |-> FALSE, next |-> 1, got |-> <<>>, at |-> 0]

ServerStart(url, up) ==
    /\ redisUrl = url
    /\ redisUp = up
    /\ globalStreamContext = "null"
    /\ console = {}
    /\ post = [pc |-> "none", n |-> 0, streamId |-> 0, run |-> "off",
               calls |-> 0, response |-> "none", down |-> FALSE]
    /\ streamTable = <<>>
    /\ dataStream = <<>>
    /\ call = NoCall
    /\ documents = <<>>
    /\ uuids = 0
    /\ bridge = [mode |-> "none", log |-> <<>>, attaches |-> 0]
    /\ readers = [r \in Readers |-> Detached]

\* The data-stream list as the provider creates it: a list, or no value
\* at all (the case the ternary of onData tests for).
DataList(items) == [defined |-> TRUE, items |-> items]

Undefined == [defined |-> FALSE, items |-> <<>>]

DataStart(ds) ==
    /\ dataStreamList = ds
    /\ received = <<>>

MaxCallers == 4

Callers == 1..MaxCallers

NotCalled == [pc |-> "idle", promise |-> 0, got |-> 0]

\* new MCPClientManager(): both maps are empty.
McpStart ==
    /\ clients = 0
    /\ connections = 0
    /\ attempts = <<>>
    /\ callers = [c \in Callers |-> NotCalled]
    /\ closing = 0
    /\ disconnects = 0

Absent == [present |-> FALSE]

NoWrite == [op |-> "none"]

NoGet == [op |-> "none"]

\* const memoryCache = new Map(); the key is not in Redis either.
CacheStart ==
    /\ redisEntry = Absent
    /\ memoryCache = Absent
    /\ now = 0
    /\ lastWrite = NoWrite
    /\ lastGet = NoGet

NotServed == [source |-> "none", timestamp |-> 0, at |-> 0]

\* const cache = new Map(): the route has served nothing yet.
NotionStart ==
    /\ pageCache = <<>>
    /\ pagesNow = 0
    /\ queries = 0
    /\ served = NotServed

UtilStart ==
    /\ DataStart(DataList(<<>>))
    /\ McpStart
    /\ CacheStart
    /\ NotionStart

Init == ClientInit /\ ServerStart(FALSE, FALSE) /\ UtilStart


\* ------------------------------------------------------ server tool calls
Event(ty, d) == [type |-> ty, data |-> d]

\* createDocument.execute up to its await: the four events, then the
\* lookup of the kind's handler.
\* Variant: the title is written before the id.
CreateEvents_TitleFirst(id, k, t, c) ==
    << Event("data-kind", k), Event("data-title", t),
       Event("data-id", id), Event("data-content", c) >>

CreateEvents(id, k, t, c) ==
    << Event("data-kind", k), Event("data-id", id),
       Event("data-title", t), Event("data-content", c) >>

CreateDocument(t, c) ==
    /\ run.pc = "idle"
    /\ Len(wire) = 0
    /\ ~idAssigned
    /\ idAssigned' = TRUE
    /\ wire' = wire \o CreateEvents("d1", "text", t, c)
    /\ run' = [pc |-> "c_hook", title |-> t, content |-> c]
    /\ lastOp' = Other
    /\ UNCHANGED <<serverVars, utilVars, status, content, title, documentId, isVisible, mounted,
                   saveTimerRef, timers, updatedTimer, cache, store, clock,
                   inflight, lastCall, edits, drops>>

\* documentHandler.onCreateDocument: the handler's content is persisted.
CreateHook ==
    /\ run.pc = "c_hook"
    /\ Len(store) < MaxRows
    /\ clock' = clock + 1
    /\ store' = SaveDocument(store, run.content, run.title, "autosave", clock')
    /\ run' = [pc |-> "returned", result |-> "created"]
    /\ lastOp' = Other
    /\ UNCHANGED <<serverVars, utilVars, status, content, title, documentId, isVisible, mounted,
                   saveTimerRef, timers, updatedTimer, cache, inflight, wire,
                   idAssigned, lastCall, edits, drops>>

\* updateDocument.execute: await getDocumentById.
AiUpdates(rows) ==
    Cardinality({i \in 1..Len(rows) : rows[i].versionType = "ai_update"})

UpdateLookupWithin(c, t, budget) ==
    /\ run.pc = "idle"
    /\ Len(wire) = 0
    /\ AiUpdates(store) < budget
    /\ IF HasDocument(store)
       THEN run' = [pc |-> "u_found", content |-> c, title |-> t,
                    document |-> Last(store)]
       ELSE run' = [pc |-> "returned", result |-> "Document not found"]
    /\ lastOp' = Other
    /\ UNCHANGED <<serverVars, utilVars, status, content, title, documentId, isVisible, mounted,
                   saveTimerRef, timers, updatedTimer, cache, store, clock,
                   inflight, wire, idAssigned, lastCall, edits, drops>>

UpdateLookup(c, t) == UpdateLookupWithin(c, t, MaxUpdates)

\* Variant: the update notification is written along with the content.
UpdateEvents_WithUpdated(c, t) ==
    IF t # NoTitle
    THEN << Event("data-title", t), Event("data-content", c),
            Event("data-updated", "null") >>
    ELSE << Event("data-content", c), Event("data-updated", "null") >>

UpdateEvents(c, t) ==
    IF t # NoTitle
    THEN << Event("data-title", t), Event("data-content", c) >>
    ELSE << Event("data-content", c) >>

\* title: title || document.title
UpdatedTitle(t, doc) == IF t # NoTitle THEN t ELSE doc.title

UpdateEmit ==
    /\ run.pc = "u_found"
    /\ wire' = wire \o UpdateEvents(run.content, run.title)
    /\ run' = [run EXCEPT !.pc = "u_hook"]
    /\ lastOp' = Other
    /\ UNCHANGED <<serverVars, utilVars, status, content, title, documentId, isVisible, mounted,
                   saveTimerRef, timers, updatedTimer, cache, store, clock,
                   inflight, idAssigned, lastCall, edits, drops>>

\* await documentHandler.onUpdateDocument, then the data-updated event.
UpdateHook ==
    /\ run.pc = "u_hook"
    /\ Len(store) < MaxRows
    /\ clock' = clock + 1
    /\ store' = SaveDocument(store, run.content,
                             UpdatedTitle(run.title, run.document),
                             "ai_update", clock')
    /\ wire' = Append(wire, Event("data-updated", "null"))
    /\ run' = [pc |-> "returned", result |-> "updated"]
    /\ lastOp' = Other
    /\ UNCHANGED <<serverVars, utilVars, status, content, title, documentId, isVisible, mounted,
                   saveTimerRef, timers, updatedTimer, cache, inflight,
                   idAssigned, lastCall, edits, drops>>

\* The tool call has returned; the run ends and the transport closes.
RunFinish ==
    /\ run.pc = "returned"
    /\ wire' = Append(wire, Event("finish", "null"))
    /\ run' = [pc |-> "idle"]
    /\ lastOp' = Other
    /\ UNCHANGED <<serverVars, utilVars, status, content, title, documentId, isVisible, mounted,
                   saveTimerRef, timers, updatedTimer, cache, store, clock,
                   inflight, idAssigned, lastCall, edits, drops>>

\* ------------------------------------------------------------- consumer
\* The artifact status after an event, by the state machine of the
\* artifact: kind / id / title open a run (streaming); the whole-value
\* content event makes the artifact ready (idle); data-updated shows the
\* "updated" banner from idle; the transport closing ends streaming.
StatusAfter(e, s, docId) ==
    CASE e.type \in {"data-kind", "data-id", "data-title"} -> "streaming"
      [] e.type = "data-content" -> IF docId = "init" THEN s ELSE "idle"
      [] e.type = "data-updated" -> IF s = "idle" THEN "updated" ELSE s
      [] e.type = "finish" -> IF s = "streaming" THEN "idle" ELSE s
      [] OTHER -> s

Consume ==
    /\ Len(wire) > 0
    /\ LET e == Head(wire) IN
        /\ status' = StatusAfter(e, status, documentId)
        /\ documentId' = IF e.type = "data-id" THEN e.data ELSE documentId
        /\ title' = IF e.type = "data-title" THEN e.data ELSE title
        /\ content' = IF e.type = "data-content" /\ documentId # "init"
                      THEN e.data ELSE content
        /\ lastOp' = IF updatedTimer /\ status' # status
                      THEN Cleanup ELSE Other
    /\ wire' = Tail(wire)
    /\ updatedTimer' = IF status' # status THEN EffectTimer(mounted, status')
                       ELSE updatedTimer
    /\ UNCHANGED <<serverVars, utilVars, isVisible, mounted, saveTimerRef, timers, cache, store,
                   clock, inflight, run, idAssigned, lastCall, edits, drops>>

\* The auto-clear timer fires: setArtifact(status: 'idle').
AutoClear ==
    /\ updatedTimer
    /\ status' = "idle"
    /\ updatedTimer' = IF status' # status THEN EffectTimer(mounted, status')
                       ELSE FALSE
    /\ lastOp' = Other
    /\ UNCHANGED <<serverVars, utilVars, content, title, documentId, isVisible, mounted,
                   saveTimerRef, timers, cache, store, clock, inflight, wire,
                   run, idAssigned, lastCall, edits, drops>>


\* ----------------------------------------------------- ArtifactSidebar
\* The title input and the editor are rendered for a visible artifact
\* whose documentId is no longer 'init'.
CanEdit == mounted /\ isVisible /\ documentId # "init"

\* Variant: handleClose flushes without clearing the pending timer.
HandleCloseTimers_Keep(ts, ref) == ts

\* handleClose: the timers left after the flush branch.
HandleCloseTimers(ts, ref) == ClearTimeout(ts, ref)

\* The cleanup effect on unmount.
UnmountTimers(ts, ref) == ClearTimeout(ts, ref)

\* handleTitleChange(newTitle)
HandleTitleChange(nt) ==
    /\ CanEdit
    /\ nt # title
    /\ IF status = "streaming"
       THEN /\ lastOp' = Other
            /\ UNCHANGED <<title, timers, saveTimerRef, lastCall, edits>>
       ELSE /\ edits < MaxEdits
            /\ edits' = edits + 1
            /\ title' = nt
            /\ timers' = ScheduleSaveTimers(timers, saveTimerRef, content, nt)
            /\ saveTimerRef' = NewTimerId(timers, saveTimerRef)
            /\ lastCall' = [content |-> content, title |-> nt,
                            n |-> BurstCount(timers, saveTimerRef),
                            during |-> status]
            /\ lastOp' = Other
    /\ UNCHANGED <<serverVars, utilVars, status, content, documentId, isVisible, mounted,
                   updatedTimer, cache, store, clock, inflight, wire, run,
                   idAssigned, drops>>

\* Editor onSaveContent(content, debounce)
OnSaveContent(c, debounce) ==
    /\ CanEdit
    /\ c # content
    /\ edits < MaxEdits
    /\ edits' = edits + 1
    /\ content' = c
    /\ IF debounce
       THEN /\ timers' = ScheduleSaveTimers(timers, saveTimerRef, c, title)
            /\ saveTimerRef' = NewTimerId(timers, saveTimerRef)
            /\ lastCall' = [content |-> c, title |-> title,
                            n |-> BurstCount(timers, saveTimerRef),
                            during |-> status]
            /\ lastOp' = Other
            /\ UNCHANGED inflight
       ELSE /\ CanSave(c, title)
            /\ inflight' = InflightAfter(c, title)
            /\ lastOp' = SaveOp("immediate", c, title, FALSE, 1, status)
            /\ UNCHANGED <<timers, saveTimerRef, lastCall>>
    /\ UNCHANGED <<serverVars, utilVars, status, title, documentId, isVisible, mounted,
                   updatedTimer, cache, store, clock, wire, run, idAssigned, drops>>

\* The debounce timer fires: handleContentChange(content, title).
TimerFire ==
    \E tm \in timers :
        /\ CanSave(tm.content, tm.title)
        /\ timers' = timers \ {tm}
        /\ inflight' = InflightAfter(tm.content, tm.title)
        /\ lastOp' = SaveOp("timer", tm.content, tm.title, FALSE,
                             IF lastCall = None THEN 0 ELSE lastCall.n,
                             IF lastCall = None THEN "none"
                             ELSE lastCall.during)
        /\ lastCall' = IF timers' = {} THEN None ELSE lastCall
        /\ UNCHANGED <<serverVars, utilVars, status, content, title, documentId, isVisible,
                       mounted, saveTimerRef, updatedTimer, cache, store,
                       clock, wire, run, idAssigned, edits, drops>>

\* handleClose
HandleClose ==
    /\ mounted
    /\ isVisible
    /\ IF saveTimerRef # 0
       THEN /\ CanSave(content, title)
            /\ timers' = HandleCloseTimers(timers, saveTimerRef)
            /\ saveTimerRef' = 0
            /\ inflight' = InflightAfter(content, title)
            /\ lastOp' = SaveOp("close", content, title,
                                 \E tm \in timers : tm.id = saveTimerRef,
                                 0, status)
       ELSE /\ lastOp' = Other
            /\ UNCHANGED <<timers, saveTimerRef, inflight>>
    /\ isVisible' = FALSE
    /\ lastCall' = IF timers' = {} THEN None ELSE lastCall
    /\ UNCHANGED <<serverVars, utilVars, status, content, title, documentId, mounted,
                   updatedTimer, cache, store, clock, wire, run, idAssigned, edits, drops>>

\* The artifact is opened (shown) again.
Open ==
    /\ mounted
    /\ ~isVisible
    /\ isVisible' = TRUE
    /\ lastOp' = Other
    /\ UNCHANGED <<serverVars, utilVars, status, content, title, documentId, mounted,
                   saveTimerRef, timers, updatedTimer, cache, store, clock,
                   inflight, wire, run, idAssigned, lastCall, edits, drops>>

\* Navigation away: the sidebar unmounts and its cleanup effects run.
Unmount ==
    /\ mounted
    /\ mounted' = FALSE
    /\ timers' = UnmountTimers(timers, saveTimerRef)
    /\ saveTimerRef' = 0
    /\ updatedTimer' = FALSE
    /\ lastCall' = None
    /\ lastOp' = Other
    /\ UNCHANGED <<serverVars, utilVars, status, content, title, documentId, isVisible, cache,
                   store, clock, inflight, wire, run, idAssigned, edits, drops>>

Mount ==
    /\ ~mounted
    /\ mounted' = TRUE
    /\ updatedTimer' = EffectTimer(TRUE, status)
    /\ lastOp' = Other
    /\ UNCHANGED <<serverVars, utilVars, status, content, title, documentId, isVisible,
                   saveTimerRef, timers, cache, store, clock, inflight, wire,
                   run, idAssigned, lastCall, edits, drops>>

\* ------------------------------------------------- cached version list
\* useSWR fetches (and revalidates) the version list of the document.
Revalidate ==
    /\ mounted
    /\ documentId # "init"
    /\ Len(inflight) = 0
    /\ cache # [loaded |-> TRUE, docs |-> Versions(store)]
    /\ cache' = [loaded |-> TRUE, docs |-> Versions(store)]
    /\ lastOp' = Other
    /\ UNCHANGED <<serverVars, utilVars, status, content, title, documentId, isVisible, mounted,
                   saveTimerRef, timers, updatedTimer, store, clock, inflight,
                   wire, run, idAssigned, lastCall, edits, drops>>

\* Variant: the updater replaces the latest cached version.
UpdaterResult_Replace(m) ==
    [m.base EXCEPT ![Len(m.base)] = Pair(m.content, m.title)]

\* The list the updater returns once its fetch has resolved.
UpdaterResult(m) == Append(m.base, Pair(m.content, m.title))

\* mutate() populates the cache with the updater's result unless a newer
\* mutate() on the key has started meanwhile.
CacheAfter(m, resolved) ==
    IF m.latest /\ resolved
    THEN [loaded |-> TRUE, docs |-> UpdaterResult(m)]
    ELSE cache

\* The POST is applied by the store and the fetch resolves.
PostApplied ==
    \E i \in 1..Len(inflight) :
        LET m == inflight[i] IN
        /\ Len(store) < MaxRows
        /\ clock' = clock + 1
        /\ store' = SaveDocument(store, m.content, m.title, "autosave", clock')
        /\ cache' = CacheAfter(m, TRUE)
        /\ inflight' = RemoveAt(inflight, i)
        /\ lastOp' = Other
        /\ UNCHANGED <<serverVars, utilVars, status, content, title, documentId, isVisible,
                       mounted, saveTimerRef, timers, updatedTimer, wire,
                       run, idAssigned, lastCall, edits, drops>>

\* The write is not applied: the store drops it silently and the fetch
\* resolves, or the request fails and the fetch rejects.
PostDropped ==
    \E i \in 1..Len(inflight), resolved \in BOOLEAN :
        LET m == inflight[i] IN
        /\ drops < MaxDrops
        /\ drops' = drops + 1
        /\ cache' = CacheAfter(m, resolved)
        /\ inflight' = RemoveAt(inflight, i)
        /\ lastOp' = Other
        /\ UNCHANGED <<serverVars, utilVars, status, content, title, documentId, isVisible,
                       mounted, saveTimerRef, timers, updatedTimer, store,
                       clock, wire, run, idAssigned, lastCall, edits>>

\* ------------------------------------------------------------------ Next
Next ==
    \/ \E t \in CreateTitles, c \in CreateContents : CreateDocument(t, c)
    \/ CreateHook
    \/ \E c \in UpdateContents, t \in UpdateTitles : UpdateLookup(c, t)
    \/ UpdateEmit
    \/ UpdateHook
    \/ RunFinish
    \/ Consume
    \/ AutoClear
    \/ \E nt \in Titles : HandleTitleChange(nt)
    \/ \E c \in Contents, d \in BOOLEAN : OnSaveContent(c, d)
    \/ TimerFire
    \/ HandleClose
    \/ Open
    \/ Unmount
    \/ Mount
    \/ Revalidate
    \/ PostApplied
    \/ PostDropped

Spec == Init /\ [][Next]_vars


\* =================================================================
\* The chat route: POST /api/chat, its generation run and tool calls
\* =================================================================
\* Requests served one after the other; tool calls made in all.
MaxRequests == 2
MaxCalls == 2

ServerInit ==
    /\ ClientInit
    /\ \E url \in BOOLEAN : ServerStart(url, url)
    /\ UtilStart

\* What a chat request can be: rejected at parsing, authentication, the
\* daily message limit or the ownership check, or accepted.
Requests == {"malformed", "anonymous", "limited", "foreign", "ok"}

Rejection(req) ==
    CASE req = "malformed" -> "bad_request:api"
      [] req = "anonymous" -> "unauthorized:chat"
      [] req = "limited" -> "rate_limit:chat"
      [] req = "foreign" -> "forbidden:chat"

Idle == post.pc \in {"none", "done"} /\ post.run \in {"off", "closed"}

\* POST up to saveMessages: the request is rejected with an error
\* response or accepted.
Receive(req) ==
    /\ Idle
    /\ post.n < MaxRequests
    /\ post' = [pc |-> IF req = "ok" THEN "accepted" ELSE "done",
                n |-> post.n + 1, streamId |-> 0, run |-> "off",
                calls |-> post.calls,
                response |-> IF req = "ok" THEN "none" ELSE Rejection(req),
                down |-> FALSE]
    /\ dataStream' = <<>>
    /\ call' = NoCall
    /\ bridge' = [mode |-> "none", log |-> <<>>, attaches |-> 0]
    /\ readers' = [r \in Readers |-> Detached]
    /\ UNCHANGED <<clientVars, utilVars, redisUrl, redisUp, globalStreamContext,
                   console, streamTable, documents, uuids>>

\* const streamId = generateUUID(); await createStreamId(...). A failing
\* insert throws and the outer catch answers with an error response.
CreateStreamId(ok) ==
    /\ post.pc = "accepted"
    /\ IF ok
       THEN /\ streamTable' = Append(streamTable,
                                     [streamId |-> post.n, chatId |-> "c1"])
            /\ post' = [post EXCEPT !.pc = "recorded", !.streamId = post.n]
       ELSE /\ post' = [post EXCEPT !.pc = "done",
                                    !.response = "bad_request:database"]
            /\ UNCHANGED streamTable
    /\ UNCHANGED <<clientVars, utilVars, redisUrl, redisUp, globalStreamContext,
                   console, dataStream, call, documents, uuids, bridge,
                   readers>>

\* createUIMessageStream({execute, ...}): the generation run starts and
\* may write to the stream from now on.
\* Variant: the stream is created without waiting for createStreamId.
CanStream_Early(pc) == pc \in {"accepted", "recorded"}

\* The stream is created after the awaited createStreamId.
CanStream(pc) == pc = "recorded"

CreateStream ==
    /\ CanStream(post.pc)
    /\ post' = [post EXCEPT !.pc = "streaming", !.run = "on"]
    /\ UNCHANGED <<clientVars, utilVars, redisUrl, redisUp, globalStreamContext,
                   console, streamTable, dataStream, call, documents, uuids,
                   bridge, readers>>

\* ----------------------------------------------------------- tool calls
ArtifactKinds == {"text", "code"}

\* documentHandlersByArtifactKind: the kinds that have a handler.
Handlers == {"text"}

\* Variant: the lookup finds a handler for every kind.
HasHandler_Any(k) == TRUE

\* documentHandlersByArtifactKind.find(h => h.kind === kind)
HasHandler(k) == k \in Handlers

UUIDs == <<"d1", "d2", "d3", "d4", "d5", "d6", "d7", "d8">>

CreatedMessage == "Document created successfully."

UpdatedMessage == "Document updated successfully."

Tag(evs, n) ==
    [i \in 1..Len(evs) |->
        [type |-> evs[i].type, data |-> evs[i].data, call |-> n]]

CanCall ==
    /\ post.run = "on"
    /\ call.pc \in {"none", "returned", "threw"}
    /\ post.calls < MaxCalls

\* The handler of the text kind: it throws on empty content, else
\* returns the content to store.
HandlerThrows(k, c) == k = "text" /\ c = ""

DocumentRow(id, c, t, k, vt, at) ==
    [id |-> id, content |-> c, title |-> t, kind |-> k,
     versionType |-> vt, createdAt |-> at]

RowsOf(rows, id) == SelectSeq(rows, LAMBDA r : r.id = id)

\* getDocumentById: the latest row of the id, if any.
GetDocumentById(rows, id) == Last(RowsOf(rows, id))

\* createDocument.execute up to its await: the id, the four events, the
\* handler lookup (which throws), the call of onCreateDocument.
CreateExecute(t, k, c) ==
    /\ CanCall
    /\ uuids < Len(UUIDs)
    /\ uuids' = uuids + 1
    /\ dataStream' =
          dataStream \o Tag(CreateEvents(UUIDs[uuids'], k, t, c),
                            post.calls + 1)
    /\ post' = [post EXCEPT !.calls = post.calls + 1]
    /\ LET c0 == [tool |-> "createDocument", n |-> post.calls + 1,
                  id |-> UUIDs[uuids'], title |-> t, kind |-> k,
                  content |-> c, first |-> Len(dataStream),
                  rows |-> Len(RowsOf(documents, UUIDs[uuids']))]
       IN  IF HasHandler(k)
           THEN call' = c0 @@ [pc |-> "hook", hooks |-> 1,
                               hookAt |-> Len(dataStream')]
           ELSE call' = c0 @@ [pc |-> "threw", hooks |-> 0, hookAt |-> 0,
                               threw |-> "No document handler found"]
    /\ UNCHANGED <<clientVars, utilVars, redisUrl, redisUp, globalStreamContext,
                   console, streamTable, documents, bridge, readers>>

\* onCreateDocument settles: the handler throws, or its content is
\* persisted as the first version of the id, or the write fails.
CreateHookDone(saved) ==
    /\ call.tool = "createDocument"
    /\ call.pc = "hook"
    /\ IF HandlerThrows(call.kind, call.content)
       THEN /\ call' = [call EXCEPT !.pc = "threw"]
                           @@ [threw |-> "Content is required"]
            /\ UNCHANGED documents
       ELSE IF saved
       THEN /\ documents' = Append(documents,
                  DocumentRow(call.id, call.content, call.title, call.kind,
                              "autosave", Len(documents) + 1))
            /\ call' = [call EXCEPT !.pc = "hooked"]
       ELSE /\ call' = [call EXCEPT !.pc = "threw"]
                           @@ [threw |-> "Failed to save document"]
            /\ UNCHANGED documents
    /\ UNCHANGED <<clientVars, utilVars, redisUrl, redisUp, globalStreamContext,
                   console, post, streamTable, dataStream, uuids, bridge,
                   readers>>

\* Variant: the result carries the document content.
CreateResult_Echo(c) ==
    [id |-> c.id, title |-> c.title, kind |-> c.kind, content |-> c.content]

CreateResult(c) ==
    [id |-> c.id, title |-> c.title, kind |-> c.kind,
     content |-> CreatedMessage]

\* The await has resolved: the value returned to the generation run.
CreateReturn ==
    /\ call.tool = "createDocument"
    /\ call.pc = "hooked"
    /\ call' = [call EXCEPT !.pc = "returned"]
                   @@ [result |-> CreateResult(call)]
    /\ UNCHANGED <<clientVars, utilVars, redisUrl, redisUp, globalStreamContext,
                   console, post, streamTable, dataStream, documents, uuids,
                   bridge, readers>>

\* updateDocument.execute: await getDocumentById({ id }).
UpdateExecute(id, c, t) ==
    /\ CanCall
    /\ post' = [post EXCEPT !.calls = post.calls + 1]
    /\ call' = [tool |-> "updateDocument", n |-> post.calls + 1,
                pc |-> "lookup", id |-> id, title |-> t, content |-> c,
                first |-> Len(dataStream), rows |-> 0,
                hooks |-> 0, hookAt |-> 0]
    /\ UNCHANGED <<clientVars, utilVars, redisUrl, redisUp, globalStreamContext,
                   console, streamTable, dataStream, documents, uuids,
                   bridge, readers>>

NotFound == [error |-> "Document not found"]

\* Variant: the events are written before the document is looked at.
EventsOnLookup_Always(found, c, t) == UpdateEvents(c, t)

\* The events written once the lookup has resolved.
EventsOnLookup(found, c, t) == IF found THEN UpdateEvents(c, t) ELSE <<>>

\* Variant: the document is passed on as it was read.
UpdatedDocument_Stale(doc, c, t) == doc

\* const updatedDocument = { ...document, content, title: title || ... }
UpdatedDocument(doc, c, t) ==
    [doc EXCEPT !.content = c, !.title = UpdatedTitle(t, doc)]

\* The lookup has resolved: not found, or the title / content events,
\* the handler lookup (which throws) and the call of onUpdateDocument.
UpdateResume ==
    /\ call.tool = "updateDocument"
    /\ call.pc = "lookup"
    /\ dataStream' =
          dataStream \o Tag(EventsOnLookup(HasDocument(RowsOf(documents,
                                                               call.id)),
                                           call.content, call.title),
                            call.n)
    /\ IF ~HasDocument(RowsOf(documents, call.id))
       THEN call' = [call EXCEPT !.pc = "returned"]
                       @@ [result |-> NotFound]
       ELSE LET document == GetDocumentById(documents, call.id) IN
            IF HasHandler(document.kind)
            THEN call' = [call EXCEPT !.pc = "hook", !.hooks = 1,
                                      !.hookAt = Len(dataStream'),
                                      !.rows = Len(RowsOf(documents,
                                                          call.id))]
                            @@ [document |-> document,
                                updatedDocument |->
                                    UpdatedDocument(document, call.content,
                                                    call.title)]
            ELSE call' = [call EXCEPT !.pc = "threw",
                                      !.rows = Len(RowsOf(documents,
                                                          call.id))]
                            @@ [document |-> document,
                                threw |-> "No document handler found"]
    /\ UNCHANGED <<clientVars, utilVars, redisUrl, redisUp, globalStreamContext,
                   console, post, streamTable, documents, uuids, bridge,
                   readers>>

\* onUpdateDocument settles: the handler throws, or the updated document
\* is persisted as a new version, or the write fails.
UpdateHookDone(saved) ==
    /\ call.tool = "updateDocument"
    /\ call.pc = "hook"
    /\ IF HandlerThrows(call.document.kind, call.content)
       THEN /\ call' = [call EXCEPT !.pc = "threw"]
                           @@ [threw |-> "Content is required"]
            /\ UNCHANGED documents
       ELSE IF saved
       THEN /\ documents' = Append(documents,
                  DocumentRow(call.updatedDocument.id,
                              call.updatedDocument.content,
                              call.updatedDocument.title,
                              call.updatedDocument.kind, "ai_update",
                              Len(documents) + 1))
            /\ call' = [call EXCEPT !.pc = "hooked"]
       ELSE /\ call' = [call EXCEPT !.pc = "threw"]
                           @@ [threw |-> "Failed to save document"]
            /\ UNCHANGED documents
    /\ UNCHANGED <<clientVars, utilVars, redisUrl, redisUp, globalStreamContext,
                   console, post, streamTable, dataStream, uuids, bridge,
                   readers>>

UpdateResult(c) ==
    [id |-> c.id, title |-> UpdatedTitle(c.title, c.document),
     kind |-> c.document.kind, content |-> UpdatedMessage]

\* The await has resolved: the data-updated event, then the result.
UpdateReturn ==
    /\ call.tool = "updateDocument"
    /\ call.pc = "hooked"
    /\ dataStream' =
          dataStream \o Tag(<<Event("data-updated", "null")>>, call.n)
    /\ call' = [call EXCEPT !.pc = "returned"]
                   @@ [result |-> UpdateResult(call)]
    /\ UNCHANGED <<clientVars, utilVars, redisUrl, redisUp, globalStreamContext,
                   console, post, streamTable, documents, uuids, bridge,
                   readers>>

\* A document of a kind without a handler, written through the document
\* write boundary (POST document(id, title, content, kind)).
PostDocument ==
    /\ Len(RowsOf(documents, "d0")) = 0
    /\ documents' = Append(documents,
          DocumentRow("d0", "a", "t", "code", "autosave",
                      Len(documents) + 1))
    /\ UNCHANGED <<clientVars, utilVars, redisUrl, redisUp, globalStreamContext,
                   console, post, streamTable, dataStream, call, uuids,
                   bridge, readers>>

\* The generation run ends and the stream closes.
RunEnd ==
    /\ post.run = "on"
    /\ call.pc \in {"none", "returned", "threw"}
    /\ post' = [post EXCEPT !.run = "closed"]
    /\ UNCHANGED <<clientVars, utilVars, redisUrl, redisUp, globalStreamContext,
                   console, streamTable, dataStream, call, documents, uuids,
                   bridge, readers>>


\* ------------------------------------------- resumable stream bridge
MaxAttaches == 3

\* try { createResumableStreamContext(...) } catch: without REDIS_URL the
\* library throws and the route logs that resumable streams are disabled;
\* any other error is printed with console.error. Neither is rethrown.
ContextOutcome(url, fails) ==
    IF ~url THEN "disabled" ELSE IF fails THEN "error" ELSE "created"

\* const streamContext = getStreamContext()
GetStreamContext(fails) ==
    /\ post.pc = "streaming"
    /\ post' = [post EXCEPT !.pc = "context"]
    /\ IF globalStreamContext # "null"
       THEN /\ ~fails
            /\ UNCHANGED <<globalStreamContext, console>>
       ELSE /\ fails => redisUrl /\ ~redisUp
            /\ globalStreamContext' =
                  IF ContextOutcome(redisUrl, fails) = "created"
                  THEN "ctx" ELSE "null"
            /\ console' =
                  IF ContextOutcome(redisUrl, fails) = "created"
                  THEN console
                  ELSE console \cup {ContextOutcome(redisUrl, fails)}
    /\ UNCHANGED <<clientVars, utilVars, redisUrl, redisUp, streamTable, dataStream,
                   call, documents, uuids, bridge, readers>>

\* Variant: the route takes the resumable branch whatever the context.
UsesBridge_Always(ctx) == TRUE

\* if (streamContext)
UsesBridge(ctx) == ctx # "null"

\* A feed attached when the log held `at` events, reading from `from`.
Attached(from, at) == [on |-> TRUE, next |-> from, got |-> <<>>, at |-> at]

\* The response: the resumable stream of the run, or the stream itself.
\* A rejected resumableStream() reaches the outer catch of POST, which
\* answers 500.
Respond ==
    /\ post.pc = "context"
    /\ IF UsesBridge(globalStreamContext)
       THEN IF globalStreamContext # "null" /\ redisUp
            THEN /\ bridge' = [mode |-> "resumable", log |-> <<>>,
                               attaches |-> 1]
                 /\ readers' = [readers EXCEPT ![1] = Attached(1, 0)]
                 /\ post' = [post EXCEPT !.pc = "done",
                                         !.response = "resumable",
                                         !.down = ~redisUp]
            ELSE /\ post' = [post EXCEPT !.pc = "done",
                                         !.response = "500",
                                         !.down = ~redisUp]
                 /\ UNCHANGED <<bridge, readers>>
       ELSE /\ bridge' = [mode |-> "direct", log |-> <<>>, attaches |-> 1]
            /\ readers' = [readers EXCEPT ![1] = Attached(1, 0)]
            /\ post' = [post EXCEPT !.pc = "done", !.response = "direct",
                                    !.down = redisUrl /\ ~redisUp]
    /\ UNCHANGED <<clientVars, utilVars, redisUrl, redisUp, globalStreamContext,
                   console, streamTable, dataStream, call, documents, uuids>>

\* The bridge appends the next event of the run to the durable log.
Record ==
    /\ bridge.mode = "resumable"
    /\ redisUp
    /\ Len(bridge.log) < Len(dataStream)
    /\ bridge' = [bridge EXCEPT
                    !.log = Append(@, dataStream[Len(bridge.log) + 1])]
    /\ UNCHANGED <<clientVars, utilVars, redisUrl, redisUp, globalStreamContext,
                   console, post, streamTable, dataStream, call, documents,
                   uuids, readers>>

\* Variant: an attached feed starts at the live end of the log.
AttachFrom_Live(log) == Len(log) + 1

\* attach(streamId): the feed replays from the start of the durable log.
AttachFrom(log) == 1

Attach(r) ==
    /\ bridge.mode = "resumable"
    /\ redisUp
    /\ ~readers[r].on
    /\ bridge.attaches < MaxAttaches
    /\ bridge' = [bridge EXCEPT !.attaches = @ + 1]
    /\ readers' = [readers EXCEPT
                     ![r] = Attached(AttachFrom(bridge.log), Len(bridge.log))]
    /\ UNCHANGED <<clientVars, utilVars, redisUrl, redisUp, globalStreamContext,
                   console, post, streamTable, dataStream, call, documents,
                   uuids>>

\* The reader disconnects; its feed is gone.
Detach(r) ==
    /\ readers[r].on
    /\ readers' = [readers EXCEPT ![r] = Detached]
    /\ UNCHANGED <<clientVars, utilVars, redisUrl, redisUp, globalStreamContext,
                   console, post, streamTable, dataStream, call, documents,
                   uuids, bridge>>

\* What an attached feed reads from: the durable log, or in pass-through
\* mode the stream of the run itself.
Feed == IF bridge.mode = "resumable" THEN bridge.log ELSE dataStream

Deliver(r) ==
    /\ readers[r].on
    /\ bridge.mode = "resumable" => redisUp
    /\ readers[r].next <= Len(Feed)
    /\ readers' = [readers EXCEPT
                     ![r].got = Append(@, Feed[readers[r].next]),
                     ![r].next = @ + 1]
    /\ UNCHANGED <<clientVars, utilVars, redisUrl, redisUp, globalStreamContext,
                   console, post, streamTable, dataStream, call, documents,
                   uuids, bridge>>

\* The durable backing store becomes unreachable / reachable again.
StoreToggle ==
    /\ redisUrl
    /\ redisUp' = ~redisUp
    /\ UNCHANGED <<clientVars, utilVars, redisUrl, globalStreamContext, console, post,
                   streamTable, dataStream, call, documents, uuids, bridge,
                   readers>>

\* ------------------------------------------------------------ ServerNext
CallTitles == {"t"}
CallContents == {"", "a"}
UpdateIds == {"d1", "d0", "d9"}
UpdateArgContents == {"", "b"}

ServerNext ==
    \/ \E req \in Requests : Receive(req)
    \/ \E ok \in BOOLEAN : CreateStreamId(ok)
    \/ CreateStream
    \/ \E t \in CallTitles, k \in ArtifactKinds, c \in CallContents :
          CreateExecute(t, k, c)
    \/ \E saved \in BOOLEAN : CreateHookDone(saved)
    \/ CreateReturn
    \/ \E id \in UpdateIds, c \in UpdateArgContents, t \in UpdateTitles :
          UpdateExecute(id, c, t)
    \/ UpdateResume
    \/ \E saved \in BOOLEAN : UpdateHookDone(saved)
    \/ UpdateReturn
    \/ PostDocument
    \/ RunEnd
    \/ \E fails \in BOOLEAN : GetStreamContext(fails)
    \/ Respond
    \/ StoreToggle

ServerSpec == ServerInit /\ [][ServerNext]_vars

\* The stream of an accepted request whose tool calls succeed, with the
\* feeds attached to it.
BridgeNext ==
    \/ Receive("ok")
    \/ CreateStreamId(TRUE)
    \/ CreateStream
    \/ CreateExecute("t", "text", "a")
    \/ CreateHookDone(TRUE)
    \/ CreateReturn
    \/ UpdateExecute("d1", "b", "u")
    \/ UpdateResume
    \/ UpdateHookDone(TRUE)
    \/ UpdateReturn
    \/ RunEnd
    \/ GetStreamContext(FALSE)
    \/ Respond
    \/ Record
    \/ \E r \in Readers : Attach(r)
    \/ \E r \in Readers : Detach(r)
    \/ \E r \in Readers : Deliver(r)

BridgeSpec == ServerInit /\ [][BridgeNext]_vars


\* =================================================================
\* Properties
\* =================================================================
IsSave(op, src) == op.op = "save" /\ op.src = src

\* C1: while the artifact status is streaming no local edit takes effect:
\* no step counts as a local edit, and a step that consumes no stream event
\* changes neither content nor title and arms no debounce timer.
C1_NoEditWhileStreaming ==
    [][status = "streaming" =>
          /\ edits' = edits
          /\ (wire' = wire =>
                /\ content' = content
                /\ title' = title
                /\ timers' \subseteq timers)]_vars

\* C2: the artifact never enters status streaming while a debounced
\* autosave is still pending.
C2_FlushBeforeStreaming ==
    [][(status # "streaming" /\ status' = "streaming") => timers = {}]_vars

\* C3: the status changes only along init->streaming, streaming->idle,
\* idle->updated, updated->idle and idle/updated->streaming.
AllowedTransitions ==
    { <<"init", "streaming">>, <<"streaming", "idle">>,
      <<"idle", "updated">>, <<"updated", "idle">>,
      <<"idle", "streaming">>, <<"updated", "streaming">> }

C3_StatusTransitions ==
    [][status' = status \/ <<status, status'>> \in AllowedTransitions]_vars

C3_Witness ==
    status = "updated" /\ updatedTimer /\ AiUpdates(store) = 1

\* C4: at most one debounce timer is pending at any moment, and when the
\* timer of a burst of scheduleSave calls fires, it attempts one save with
\* the content and title of the last call and leaves no timer behind.
C4_Debounce ==
    /\ [](Cardinality(timers) <= 1)
    /\ [][IsSave(lastOp', "timer") =>
             /\ lastCall # None
             /\ lastOp'.content = lastCall.content
             /\ lastOp'.title = lastCall.title
             /\ timers' = {}]_vars

C4_Witness ==
    IsSave(lastOp, "timer") /\ lastOp.burst = 2 /\ lastOp.outcome = "post"

\* C5: closing the artifact while a debounced save is pending cancels the
\* timer (none is left to fire), resets the ref, and performs one save with
\* the artifact's current content and title at once.
C5_CloseFlush ==
    [][(isVisible /\ ~isVisible' /\ \E tm \in timers : tm.id = saveTimerRef)
        => /\ timers' = {}
           /\ saveTimerRef' = 0
           /\ IsSave(lastOp', "close")
           /\ lastOp'.content = content
           /\ lastOp'.title = title
           /\ Len(inflight') <= Len(inflight) + 1
           /\ (lastOp'.outcome = "post" =>
                 /\ Len(inflight') = Len(inflight) + 1
                 /\ Last(inflight').content = content
                 /\ Last(inflight').title = title)]_vars

C5_Witness ==
    /\ IsSave(lastOp, "close")
    /\ lastOp.cancelled
    /\ lastOp.outcome = "post"
    /\ timers = {}

\* C6: every step that cancels a pending debounce timer by closing the
\* artifact or unmounting the sidebar flushes the pending edit (calls the
\* save) in that step.
C6_CancelFlushes ==
    [][(timers # {} /\ timers' = {}
          /\ (mounted' # mounted \/ isVisible' # isVisible))
        => lastOp'.op = "save"]_vars

\* C7: a save whose content and title equal the latest known version
\* starts no write and leaves store and cache alone; and when a save that
\* no other save overlapped has written its row, that row is the latest
\* known version, so repeating the save writes nothing more.
C7_IdempotentSave ==
    /\ [][(lastOp'.op = "save" /\ cache.loaded /\ Len(cache.docs) > 0
             /\ Last(cache.docs) = Pair(lastOp'.content, lastOp'.title))
           => /\ Len(inflight') = Len(inflight)
              /\ store' = store
              /\ cache' = cache]_vars
    /\ [][(Len(store') = Len(store) + 1 /\ Len(inflight) = 1
             /\ Len(inflight') = 0 /\ inflight[1].latest)
           => /\ cache'.loaded
              /\ Len(cache'.docs) > 0
              /\ Last(cache'.docs)
                    = Pair(Last(store').content, Last(store').title)]_vars

C7_Witness ==
    /\ lastOp.op = "save"
    /\ lastOp.outcome = "nochange"
    /\ Len(store) >= 2
    /\ Last(store).versionType = "autosave"
    /\ Pair(Last(store).content, Last(store).title)
          = Pair(lastOp.content, lastOp.title)

\* C8: overlapping saves never append the same content/title pair twice:
\* a POST that appends a row finds no row with its content and title that
\* another client save appended after this save had started.
C8_NoDuplicateRows ==
    [][\A i \in 1..Len(inflight) :
          (inflight' = RemoveAt(inflight, i) /\ Len(store') = Len(store) + 1)
          => ~(\E j \in (inflight[i].startLen + 1)..Len(store) :
                  /\ store[j].versionType = "autosave"
                  /\ store[j].content = inflight[i].content
                  /\ store[j].title = inflight[i].title)]_vars

\* C9: when the save of a local edit made while the status was not
\* streaming runs (timer fired or immediate save, artifact open), the edit
\* is sent to the store or already is the latest known version, also when
\* the cached version list is empty or not yet loaded.
C9_EditsWritten ==
    [][((IsSave(lastOp', "timer") \/ IsSave(lastOp', "immediate"))
          /\ lastOp'.during \in {"idle", "updated"})
        => lastOp'.outcome \in {"post", "nochange"}]_vars

\* C10: every write to the store appends exactly one new version with a
\* createdAt greater than all earlier ones and leaves the earlier versions
\* unchanged; the versions are strictly increasing in createdAt; and a save
\* whose result reaches the cached version list extends that list by one
\* version, leaving the versions already listed unchanged.
C10_AppendOnly ==
    /\ [][(Len(inflight') < Len(inflight) /\ cache' # cache) =>
                /\ Len(cache'.docs) = Len(cache.docs) + 1
                /\ SubSeq(cache'.docs, 1, Len(cache.docs)) = cache.docs]_vars
    /\ [][/\ (store' # store \/ clock' # clock) =>
                /\ Len(store') = Len(store) + 1
                /\ SubSeq(store', 1, Len(store)) = store
                /\ \A i \in 1..Len(store) :
                      store[i].createdAt < Last(store').createdAt]_vars
    /\ [](\A i, j \in 1..Len(store) :
              i < j => store[i].createdAt < store[j].createdAt)

C10_Witness ==
    /\ Len(store) >= 3
    /\ \E i \in 1..Len(store) : store[i].versionType = "ai_update"
    /\ Last(store).versionType = "autosave"

\* ------------------------------------------------ tool dispatch claims
\* The events the tool call in progress (or last finished) has written.
CallEvents == SubSeq(dataStream, call.first + 1, Len(dataStream))

Types(evs) == [i \in 1..Len(evs) |-> evs[i].type]

Datas(evs) == [i \in 1..Len(evs) |-> evs[i].data]

Count(evs, ty) == Cardinality({i \in 1..Len(evs) : evs[i].type = ty})

\* C11: a createDocument call writes exactly the events data-kind,
\* data-id, data-title, data-content, in that order, with the requested
\* kind, the newly assigned id (no row has it yet), the title and the
\* content; and the creation hook is invoked only once all four are
\* written.
C11_CreateEvents ==
    call.tool = "createDocument" =>
        /\ Types(CallEvents)
              = <<"data-kind", "data-id", "data-title", "data-content">>
        /\ Datas(CallEvents)
              = <<call.kind, call.id, call.title, call.content>>
        /\ \A i \in 1..Len(CallEvents) : CallEvents[i].call = call.n
        /\ call.rows = 0
        /\ call.hooks = 1 => call.hookAt = call.first + 4

C11_Witness ==
    /\ call.tool = "createDocument"
    /\ call.pc = "returned"
    /\ call.n = 2
    /\ call.first >= 4
    /\ call.hooks = 1

C13_NotFound ==
    [][(call.tool = "updateDocument" /\ call.pc = "lookup"
          /\ call' # call /\ Len(RowsOf(documents, call.id)) = 0)
        => /\ call'.pc = "returned"
           /\ call'.result = [error |-> "Document not found"]
           /\ call'.hooks = 0
           /\ dataStream' = dataStream
           /\ documents' = documents]_vars

C13_Witness ==
    /\ call.tool = "updateDocument"
    /\ call.pc = "returned"
    /\ call.result = [error |-> "Document not found"]
    /\ call.id = "d9"
    /\ Len(documents) > 0

\* C14: when the kind of the document has no registered handler,
\* createDocument and updateDocument throw (no result is returned), no
\* hook is invoked, no row of the id is written and no data-updated event
\* is written.
KindOf(c) == IF c.tool = "createDocument" THEN c.kind ELSE c.document.kind

Settled(c) ==
    /\ c.tool \in {"createDocument", "updateDocument"}
    /\ c.pc \notin {"lookup"}
    /\ (c.pc = "returned" => c.result # NotFound)

C14_MissingHandler ==
    (Settled(call) /\ KindOf(call) \notin Handlers) =>
        /\ call.pc = "threw"
        /\ call.threw = "No document handler found"
        /\ call.hooks = 0
        /\ Len(RowsOf(documents, call.id)) = call.rows
        /\ Count(CallEvents, "data-updated") = 0

C14_WitnessCreate ==
    /\ call.tool = "createDocument"
    /\ call.pc = "threw"
    /\ call.kind = "code"
    /\ Len(CallEvents) = 4

C14_Witness ==
    /\ call.tool = "updateDocument"
    /\ call.pc = "threw"
    /\ call.document.kind = "code"
    /\ call.threw = "No document handler found"
    /\ Len(CallEvents) > 0

\* C15: the value a successful createDocument (updateDocument) call
\* returns has the fields id, title, kind and content only, and its
\* content field is the fixed status message, whatever content was
\* passed in.
C15_ReturnValue ==
    (call.pc = "returned" /\ call.result # NotFound) =>
        /\ DOMAIN call.result = {"id", "title", "kind", "content"}
        /\ call.result.id = call.id
        /\ call.result.kind = KindOf(call)
        /\ call.tool = "createDocument" =>
              /\ call.result.content = "Document created successfully."
              /\ call.result.title = call.title
        /\ call.tool = "updateDocument" =>
              /\ call.result.content = "Document updated successfully."
              /\ call.result.title
                    = GetDocumentById(documents, call.id).title
        /\ call.content \notin {CreatedMessage, UpdatedMessage} =>
              call.result.content # call.content

C15_Witness ==
    /\ call.tool = "createDocument"
    /\ call.pc = "returned"
    /\ call.content = "a"
    /\ call.result.content = "Document created successfully."

IsPrefix(a, b) == Len(a) <= Len(b) /\ a = SubSeq(b, 1, Len(a))

C18_DegradedMode ==
    ~redisUrl =>
        /\ globalStreamContext = "null"
        /\ console \subseteq {"disabled"}
        /\ (post.pc = "context" \/ (post.pc = "done" /\ post.run # "off"))
              => "disabled" \in console
        /\ (post.pc = "done" /\ post.run # "off") =>
              /\ post.response = "direct"
              /\ bridge.mode = "direct"
        /\ \A r \in Readers :
              readers[r].on => IsPrefix(readers[r].got, dataStream)

C18_Witness ==
    /\ ~redisUrl
    /\ post.response = "direct"
    /\ post.run = "closed"
    /\ "disabled" \in console
    /\ readers[1].on
    /\ Len(dataStream) >= 7
    /\ readers[1].got = dataStream

\* C19: a request that finds the configured backing store unreachable
\* when it opens the channel of its run is answered with the pass-through
\* stream, not with an error response.
C19_UnreachableFallsBack ==
    (post.pc = "done" /\ post.run # "off" /\ post.down)
        => post.response = "direct"

\* C20: once the stream of an accepted request exists (its run may write
\* events), the Stream Record of the request's streamId is in the table,
\* one record per streamId; and no record is ever changed or removed.
C20_StreamRecord ==
    /\ []((post.run # "off" \/ Len(dataStream) > 0) =>
             /\ post.streamId # 0
             /\ Cardinality({i \in 1..Len(streamTable) :
                    streamTable[i].streamId = post.streamId}) = 1)
    /\ [][/\ Len(streamTable') >= Len(streamTable)
          /\ \A i \in 1..Len(streamTable) :
                streamTable'[i] = streamTable[i]]_vars

C20_Witness ==
    /\ Len(streamTable) = 2
    /\ post.streamId = 2
    /\ post.run = "on"
    /\ Len(dataStream) >= 4
    /\ streamTable[1] = [streamId |-> 1, chatId |-> "c1"]

\* ------------------------------------------- further artifact claims
\* C22: the status never remains updated: whenever the status is updated
\* the auto-revert timer of the fixed display window is pending, so the
\* status is idle as soon as the window has elapsed.
C22_RevertPending == status = "updated" => updatedTimer

\* C23: the cached version list never holds a version the store did not
\* record: every cached version is the content and title of a stored row.
C23_CacheWithinStore ==
    \A i \in 1..Len(cache.docs) :
        \E j \in 1..Len(store) :
            Pair(store[j].content, store[j].title) = cache.docs[i]

\* Generation runs against a mounted or unmounted sidebar without local
\* edits: a second update run can start while the banner is still shown.
MaxReruns == 2

RevertNext ==
    \/ \E t \in CreateTitles, c \in CreateContents : CreateDocument(t, c)
    \/ CreateHook
    \/ \E c \in UpdateContents, t \in UpdateTitles :
           UpdateLookupWithin(c, t, MaxReruns)
    \/ UpdateEmit
    \/ UpdateHook
    \/ RunFinish
    \/ Consume
    \/ AutoClear
    \/ Open
    \/ Unmount
    \/ Mount

RevertSpec == Init /\ [][RevertNext]_vars

\* C25: the auto-revert timer is pending only while the status is
\* updated, and a step that consumes no stream event changes the status
\* only from updated to idle (it never turns streaming into idle).
C25_TimerOnlyClearsUpdated ==
    /\ [](updatedTimer => status = "updated")
    /\ [][(status' # status /\ wire' = wire)
            => (status = "updated" /\ updatedTimer /\ status' = "idle")]_vars

\* The revert timer was pending when an event of a new run set the
\* status to streaming, and the cleanup cancelled it.
C25_Witness ==
    /\ lastOp = Cleanup
    /\ status = "streaming"
    /\ ~updatedTimer
    /\ mounted

\* C26: once a createDocument call has ended, by returning or by
\* throwing, the id its data-id event announced has a stored row.
C26_AnnouncedIdPersisted ==
    (call.tool = "createDocument" /\ call.pc \in {"returned", "threw"}
        /\ Count(CallEvents, "data-id") = 1)
        => Len(RowsOf(documents, call.id)) >= 1

\* --------------------------------------- the consumer's data-stream list
\* Data parts the chat transport hands to onData.
DataParts ==
    { [type |-> "data-id", data |-> "d1"],
      [type |-> "data-content", data |-> "a"],
      [type |-> "data-finish", data |-> ""] }

MaxParts == 4

\* The updater onData passes to setDataStream:
\*   (ds) => (ds ? [...ds, dataPart] : [])
OnDataUpdater(ds, dataPart) ==
    IF ds.defined THEN DataList(Append(ds.items, dataPart))
                  ELSE DataList(<<>>)

\* onData: (dataPart) => { setDataStream(updater) }
OnData ==
    \E dataPart \in DataParts :
        /\ Len(received) < MaxParts
        /\ received' = Append(received, dataPart)
        /\ dataStreamList' = OnDataUpdater(dataStreamList, dataPart)
        /\ UNCHANGED <<clientVars, serverVars, mcpVars, cacheVars, notionVars>>

DataInit ==
    /\ ClientInit
    /\ ServerStart(FALSE, FALSE)
    /\ \E ds \in {Undefined, DataList(<<>>)} : DataStart(ds)
    /\ McpStart
    /\ CacheStart
    /\ NotionStart

DataNext == OnData

DataSpec == DataInit /\ [][DataNext]_vars

\* C21: the accumulated data-stream list equals the sequence of the data
\* parts received so far, in arrival order, whatever the list's value was
\* before the first part.
C21_ListIsReceived == dataStreamList.items = received

\* ------------------------------------------------------ MCPClientManager
MaxDisconnects == 2

\* if (!this.connections.has(config.name)) ...: is a promise stored?
HasConnection_Never(conn) == FALSE

HasConnection(conn) == conn # 0

\* getClient up to its first await: return the registered client, or
\* store the promise of a new createConnection unless one is stored, and
\* wait for the stored promise.
GetClient(c) ==
    /\ callers[c].pc = "idle"
    /\ IF clients # 0
         THEN /\ callers' = [callers EXCEPT
                    ![c] = [pc |-> "returned", promise |-> 0, got |-> clients]]
              /\ UNCHANGED <<connections, attempts>>
         ELSE /\ connections' = IF HasConnection(connections)
                                  THEN connections
                                  ELSE Len(attempts) + 1
              /\ attempts' = IF HasConnection(connections)
                               THEN attempts
                               ELSE Append(attempts, "pending")
              /\ callers' = [callers EXCEPT
                    ![c] = [pc |-> "awaiting", promise |-> connections',
                            got |-> 0]]
    /\ UNCHANGED <<clientVars, serverVars, dataVars, cacheVars, notionVars, clients, closing,
                   disconnects>>

\* createConnection after await client.connect(transport): it registers
\* the client, or logs the error and rethrows (the promise rejects).
ConnectSettle(a, ok) ==
    /\ attempts[a] = "pending"
    /\ attempts' = [attempts EXCEPT
            ![a] = IF ok THEN "fulfilled" ELSE "rejected"]
    /\ clients' = IF ok THEN a ELSE clients
    /\ UNCHANGED <<clientVars, serverVars, dataVars, cacheVars, notionVars, connections, callers,
                   closing, disconnects>>

\* getClient after await connection: a rejected promise throws out of
\* the call; otherwise the registered client is returned, and the call
\* throws 'Failed to create MCP client' when there is none.
GetClientResume(c) ==
    /\ callers[c].pc = "awaiting"
    /\ attempts[callers[c].promise] # "pending"
    /\ callers' = [callers EXCEPT
            ![c] = IF attempts[callers[c].promise] = "rejected" \/ clients = 0
                     THEN [@ EXCEPT !.pc = "threw"]
                     ELSE [@ EXCEPT !.pc = "returned", !.got = clients]]
    /\ UNCHANGED <<clientVars, serverVars, dataVars, cacheVars, notionVars, clients, connections,
                   attempts, closing, disconnects>>

\* disconnect up to await client.close(); without a registered client
\* the call does nothing.
DisconnectCall ==
    /\ disconnects < MaxDisconnects
    /\ disconnects' = disconnects + 1
    /\ closing' = IF clients # 0 THEN closing + 1 ELSE closing
    /\ UNCHANGED <<clientVars, serverVars, dataVars, cacheVars, notionVars, clients, connections,
                   attempts, callers>>

\* disconnect after await client.close(): both map entries are deleted.
DisconnectResume ==
    /\ closing > 0
    /\ closing' = closing - 1
    /\ clients' = 0
    /\ connections' = 0
    /\ UNCHANGED <<clientVars, serverVars, dataVars, cacheVars, notionVars, attempts, callers,
                   disconnects>>

\* Concurrent getClient calls only (nothing under src/ calls disconnect).
McpNext ==
    \/ \E c \in Callers : GetClient(c)
    \/ \E a \in 1..Len(attempts), ok \in BOOLEAN : ConnectSettle(a, ok)
    \/ \E c \in Callers : GetClientResume(c)

McpSpec == Init /\ [][McpNext]_vars

\* The whole manager: getClient and disconnect calls.
McpFullNext ==
    \/ McpNext
    \/ DisconnectCall
    \/ DisconnectResume

McpFullSpec == Init /\ [][McpFullNext]_vars

Pending == {a \in 1..Len(attempts) : attempts[a] = "pending"}

\* C24: among concurrent getClient calls at most one connection attempt
\* is in progress, it is the stored one and it runs only while no client
\* is registered; all callers that have returned hold the same client
\* instance, the registered one.
C24_OneAttempt ==
    /\ Cardinality(Pending) <= 1
    /\ \A a \in Pending : clients = 0 /\ connections = a
    /\ \A c \in Callers :
           callers[c].pc = "returned" => callers[c].got = clients
    /\ \A c, d \in Callers :
           (callers[c].pc = "returned" /\ callers[d].pc = "returned")
               => callers[c].got = callers[d].got

\* Three callers have returned a client: two that waited for the same
\* attempt and one that found the client registered.
C24_Witness ==
    /\ \E c, d \in Callers :
           /\ c # d
           /\ callers[c].pc = "returned" /\ callers[c].promise = 1
           /\ callers[d].pc = "returned" /\ callers[d].promise = 1
    /\ \E c \in Callers :
           callers[c].pc = "returned" /\ callers[c].promise = 0

\* C27: a getClient call that has to wait, waits for a connection
\* attempt that is still in progress (one it started or a concurrent
\* one), never for an attempt that has already failed.
C27_FreshAttempt ==
    [][\A c \in Callers :
          (callers[c].pc = "idle" /\ callers'[c].pc = "awaiting")
              => attempts'[callers'[c].promise] = "pending"]_vars

\* ------------------------------------------- cache helpers (lib/redis.ts)
MaxTicks == 3

CacheValues == {"v1", "v2"}

TtlSeconds == {1, 2}

Null == "null"

\* JSON.stringify / JSON.parse of a cached value.
Stringify(data) == <<"json", data>>

Parse(text) == text[2]

Entry(data, expires) ==
    [present |-> TRUE, data |-> data, expires |-> expires]

\* ensureRedisConnected() hands out a client and the command succeeds:
\* REDIS_URL is set and the server is reachable. Otherwise the client is
\* null (no REDIS_URL) or connect / the command throws.
RedisWorks == redisUrl /\ redisUp

\* The key as Redis sees it: an entry set with setEx is gone once its
\* time to live has passed.
RedisGet(entry, t) ==
    IF entry.present /\ entry.expires > t THEN entry.data ELSE ""

\* memoryCache.delete(key) runs on every path of deleteCached.
MemoryAfterDelete(works, cached) == Absent

\* setCached(key, data, ttlSeconds)
SetCached(data, ttlSeconds) ==
    /\ IF RedisWorks
         THEN /\ redisEntry' = Entry(Stringify(data), now + ttlSeconds * 1000)
              /\ UNCHANGED memoryCache
         ELSE /\ memoryCache' = Entry(data, now + ttlSeconds * 1000)
              /\ UNCHANGED redisEntry
    /\ lastWrite' = [op |-> "set", data |-> data,
                     expires |-> now + ttlSeconds * 1000]
    /\ lastGet' = NoGet
    /\ UNCHANGED <<clientVars, serverVars, dataVars, mcpVars, notionVars, now>>

\* getCached(key)
GetCached ==
    /\ IF RedisWorks
         THEN /\ lastGet' =
                   [op |-> "get", from |-> "redis", at |-> now,
                    value |-> IF RedisGet(redisEntry, now) # ""
                                THEN Parse(RedisGet(redisEntry, now))
                                ELSE Null]
              /\ UNCHANGED memoryCache
         ELSE IF memoryCache.present /\ memoryCache.expires > now
         THEN /\ lastGet' = [op |-> "get", from |-> "memory", at |-> now,
                             value |-> memoryCache.data]
              /\ UNCHANGED memoryCache
         ELSE /\ lastGet' = [op |-> "get", from |-> "memory", at |-> now,
                             value |-> Null]
              /\ memoryCache' = Absent
    /\ UNCHANGED <<clientVars, serverVars, dataVars, mcpVars, notionVars, redisEntry,
                   now, lastWrite>>

\* deleteCached(key)
DeleteCached ==
    /\ redisEntry' = IF RedisWorks THEN Absent ELSE redisEntry
    /\ memoryCache' = MemoryAfterDelete(RedisWorks, memoryCache)
    /\ lastWrite' = [op |-> "delete"]
    /\ lastGet' = NoGet
    /\ UNCHANGED <<clientVars, serverVars, dataVars, mcpVars, notionVars, now>>

\* Time passes.
Tick ==
    /\ now < MaxTicks * 1000
    /\ now' = now + 1000
    /\ UNCHANGED <<clientVars, serverVars, dataVars, mcpVars, notionVars, redisEntry,
                   memoryCache, lastWrite, lastGet>>

CacheNext ==
    \/ \E data \in CacheValues, ttlSeconds \in TtlSeconds :
           SetCached(data, ttlSeconds)
    \/ GetCached
    \/ DeleteCached
    \/ Tick
    \/ StoreToggle

CacheSpec == ServerInit /\ [][CacheNext]_vars

\* C28: a getCached that follows a deleteCached, with no setCached in
\* between, returns null, whatever the state of Redis was during the
\* calls.
C28_DeletedStaysNull ==
    (lastWrite.op = "delete" /\ lastGet.op = "get") => lastGet.value = Null

\* C29: a getCached that follows setCached(key, v, ttl), with no other
\* set or delete in between, returns v while ttl has not elapsed,
\* whatever the state of Redis was during the calls; once ttl has elapsed
\* the in-memory fallback does not return v.
C29_SetThenGet ==
    (lastWrite.op = "set" /\ lastGet.op = "get")
        => /\ lastGet.at < lastWrite.expires => lastGet.value = lastWrite.data
           /\ (lastGet.at >= lastWrite.expires /\ lastGet.from = "memory")
                  => lastGet.value # lastWrite.data

\* ------------------------------------- Notion pages route (page cache)
CACHE_TTL == 5 * 60 * 1000

MAX_CACHE_SIZE == 100

MaxQueries == 100

MaxWaits == 1

\* Cache keys: 0 is 'all_pages', q >= 1 is 'search:<the q-th query>'.
AllPagesKey == 0

\* A request's query: none, the first query again, or a new one.
QueryInputs == {AllPagesKey, 1} \cup
               (IF queries < MaxQueries THEN {queries + 1} ELSE {})

Has(c, key) == \E i \in 1..Len(c) : c[i].key = key

Get(c, key) == c[CHOOSE i \in 1..Len(c) : c[i].key = key]

\* Map.set: an existing key keeps its place, a new key goes last.
Set(c, key, timestamp) ==
    IF Has(c, key)
    THEN [i \in 1..Len(c) |->
             IF c[i].key = key THEN [key |-> key, timestamp |-> timestamp]
                               ELSE c[i]]
    ELSE Append(c, [key |-> key, timestamp |-> timestamp])

\* isCacheValid: Date.now() - cached.timestamp < CACHE_TTL
IsCacheValid(cached, t) == t - cached.timestamp < CACHE_TTL

ValidIn(c, key, t) == Has(c, key) /\ IsCacheValid(Get(c, key), t)

\* Position of entry i after the (stable) sort by timestamp.
Rank(c, i) ==
    Cardinality({j \in 1..Len(c) :
        \/ c[j].timestamp < c[i].timestamp
        \/ c[j].timestamp = c[i].timestamp /\ j < i})

RECURSIVE KeepFrom(_, _, _)
KeepFrom(c, k, i) ==
    IF i > Len(c) THEN <<>>
    ELSE (IF Rank(c, i) >= k THEN <<c[i]>> ELSE <<>>) \o KeepFrom(c, k, i + 1)

\* cleanCache: above MAX_CACHE_SIZE entries, the oldest
\* entries.length - MAX_CACHE_SIZE + 10 are deleted.
CleanCache(c) ==
    IF Len(c) > MAX_CACHE_SIZE
    THEN KeepFrom(c, Len(c) - MAX_CACHE_SIZE + 10, 1)
    ELSE c

Response(source, timestamp) ==
    [source |-> source, timestamp |-> timestamp, at |-> pagesNow]

\* GET in search mode (query.trim() is not empty).
Search(q) ==
    /\ q # AllPagesKey
    /\ queries' = IF q > queries THEN q ELSE queries
    /\ IF ValidIn(pageCache, q, pagesNow)
         THEN /\ served' = Response("search_cache",
                                    Get(pageCache, q).timestamp)
              /\ UNCHANGED pageCache
         ELSE /\ pageCache' =
                   Set(IF ValidIn(pageCache, AllPagesKey, pagesNow)
                         THEN pageCache
                         ELSE Set(pageCache, AllPagesKey, pagesNow),
                       q, pagesNow)
              /\ served' = Response("search_filtered", pagesNow)
    /\ UNCHANGED <<clientVars, serverVars, dataVars, mcpVars, cacheVars,
                   pagesNow>>

\* GET without a query: all pages, from the cache or from Notion.
AllPages ==
    /\ IF ValidIn(pageCache, AllPagesKey, pagesNow)
         THEN /\ served' = Response("cache",
                                    Get(pageCache, AllPagesKey).timestamp)
              /\ UNCHANGED pageCache
         ELSE /\ pageCache' = CleanCache(Set(pageCache, AllPagesKey, pagesNow))
              /\ served' = Response("api_all", pagesNow)
    /\ UNCHANGED <<clientVars, serverVars, dataVars, mcpVars, cacheVars,
                   pagesNow, queries>>

\* Time passes: one period of CACHE_TTL.
PagesWait ==
    /\ pagesNow < MaxWaits * CACHE_TTL
    /\ pagesNow' = pagesNow + CACHE_TTL
    /\ UNCHANGED <<clientVars, serverVars, dataVars, mcpVars, cacheVars,
                   pageCache, queries, served>>

\* GET: query.trim() ? search mode : all pages.
NotionNext ==
    \/ \E q \in QueryInputs \ {AllPagesKey} : Search(q)
    \/ AllPages
    \/ PagesWait

NotionSpec == Init /\ [][NotionNext]_vars

\* C30: the page cache never holds more than MAX_CACHE_SIZE entries, and
\* a response served from the cache comes from an entry younger than
\* CACHE_TTL.
C30_CacheBounded ==
    /\ Len(pageCache) <= MAX_CACHE_SIZE
    /\ served.source \in {"search_cache", "cache"}
           => served.at - served.timestamp < CACHE_TTL

====
